---- MODULE Spec2Model ----
(***************************************************************************)
(* Book management service (src/main.py): one table "books" behind five    *)
(* HTTP handlers.  The table is a set of rows; every handler is one action *)
(* that reads the request, validates the payload, runs the queries and the *)
(* commit, and records the response in `last`.                             *)
(***************************************************************************)
EXTENDS Integers, Sequences, FiniteSets, TLC

VARIABLES table,     \* rows of the table "books"
          last,      \* the last request handled and its response
          assigned,  \* history: the ids storage has assigned to created rows
          fresh,     \* history: created rows not updated or deleted since
          sess,      \* the two concurrent request sessions (SpecConc)
          table0     \* the table when the concurrent requests arrived (SpecConc)

vars == <<table, last, assigned, fresh, sess, table0>>

\* Largest id that storage assigns and that a request names.
MaxId == 2

----------------------------------------------------------------------------
(* Values of a JSON payload / Python attribute: None, a str, an int.       *)

None == [t |-> "none", s |-> "", n |-> 0]

S(x) == [t |-> "str", s |-> x, n |-> 0]

I(k) == [t |-> "int", s |-> "", n |-> k]

Keys == {"id", "title", "author", "description"}

Ids == 1..MaxId

\* Values a request body may carry for each key.
IdIn == {None} \cup {I(k) : k \in Ids}

TitleIn == {S(""), S("A")}

AuthorIn == {S(""), S("B")}

\* Request bodies: the payloads the model Book accepts without an id, with
\* and without a description; payloads that carry an id; and payloads the
\* model rejects (title and author missing, a null title).
Payloads ==
    {[title |-> t, author |-> a] : t \in TitleIn, a \in AuthorIn}
    \cup {[title |-> t, author |-> a, description |-> S("D")] :
            t \in TitleIn, a \in AuthorIn}
    \cup {[title |-> S("A"), author |-> S("B"), description |-> None]}
    \cup {[id |-> i, title |-> S(""), author |-> S("")] : i \in IdIn}
    \cup {[description |-> S("D")],
          [title |-> None, author |-> S("B")]}

\* Bodies of POST /books.
PostPayloads == Payloads

\* Bodies of PUT /books/{id}: also the form whose fields are all left empty.
PutPayloads ==
    Payloads \cup {[title |-> S(""), author |-> S(""), description |-> S("")]}

NoBody == [k \in {} |-> None]

----------------------------------------------------------------------------
(* Validation layer: the pydantic model Book.                              *)

\* Book(**payload) succeeds: title and author are required strs, id is an
\* optional int, description an optional str.
Valid(p) ==
    /\ "title" \in DOMAIN p /\ p.title.t = "str"
    /\ "author" \in DOMAIN p /\ p.author.t = "str"
    /\ "id" \in DOMAIN p => p.id.t \in {"int", "none"}
    /\ "description" \in DOMAIN p => p.description.t \in {"str", "none"}

\* The validated model: unset optional fields take their default None.
Book(p) ==
    [fields_set  |-> DOMAIN p,
     id          |-> IF "id" \in DOMAIN p THEN p.id ELSE None,
     title       |-> p.title,
     author      |-> p.author,
     description |-> IF "description" \in DOMAIN p THEN p.description ELSE None]

\* book.model_dump(exclude_unset=True)
ModelDump(book) == [k \in book.fields_set |-> book[k]]

----------------------------------------------------------------------------
(* Record store: the ORM class BookORM and the session's statements.       *)

\* A row of "books": id is the integer primary key, the other columns hold
\* a str or None.
Row(id, title, author, description) ==
    [id |-> id, title |-> title, author |-> author, description |-> description]

\* db.query(BookORM).filter(BookORM.id == book_id): the rows with that id.
Find(t, id) == {r \in t : r.id = id}

\* .first() of a non-empty result.
First(rows) == CHOOSE r \in rows : TRUE

MaxOf(ns) == CHOOSE n \in ns : \A m \in ns : m <= n

\* NextId with the increment forgotten.
NextIdSame(t) == IF t = {} THEN 1 ELSE MaxOf({r.id : r \in t})

\* The id storage gives an inserted row: an INTEGER PRIMARY KEY column takes
\* one more than the largest id in the table, 1 in an empty table.
NextId(t) == IF t = {} THEN 1 ELSE MaxOf({r.id : r \in t}) + 1

\* Takes without the test for the empty string.
TakesEmpty(v) == v # None

\* The guard of the update loop: value is not None and value != "".
Takes(v) == v # None /\ v # S("")

\* The update loop: setattr(book_upd, key, value) for every dumped key
\* whose value passes the guard; the dump's id is one of the keys.
Setattrs(row, dump) ==
    [id          |-> IF "id" \in DOMAIN dump /\ Takes(dump.id)
                     THEN dump.id.n ELSE row.id,
     title       |-> IF "title" \in DOMAIN dump /\ Takes(dump.title)
                     THEN dump.title ELSE row.title,
     author      |-> IF "author" \in DOMAIN dump /\ Takes(dump.author)
                     THEN dump.author ELSE row.author,
     description |-> IF "description" \in DOMAIN dump /\ Takes(dump.description)
                     THEN dump.description ELSE row.description]

\* The primary key rejects an UPDATE that moves a row onto another row's id.
PkConflict(t, old, new) == new.id # old.id /\ Find(t, new.id) # {}

\* Remove that forgets the row it was given.
RemoveNothing(t, row) == t

\* db.delete(book) flushed: the row leaves the table.
Remove(t, row) == t \ {row}

\* Commit that keeps the pending change of a failed commit.
CommitAnyway(stored, pending, fail) == pending

\* db.commit(): the pending table becomes the stored one, unless storage
\* fails, and then the session is closed without it (rollback).
Commit(stored, pending, fail) == IF fail THEN stored ELSE pending

RECURSIVE SortedRows(_)
\* db.query(BookORM).all(): the rows in storage (rowid) order.
SortedRows(t) ==
    IF t = {} THEN <<>>
    ELSE LET r == CHOOSE x \in t : \A y \in t : x.id <= y.id
         IN <<r>> \o SortedRows(t \ {r})

----------------------------------------------------------------------------
(* Responses.                                                              *)

RespBook(r) == [kind |-> "book", rows |-> <<r>>, detail |-> ""]

RespList(rs) == [kind |-> "list", rows |-> rs, detail |-> ""]

RespNull == [kind |-> "null", rows |-> <<>>, detail |-> ""]

\* HTTPException(status_code=404, detail="Book not found")
NotFound == [kind |-> "detail", rows |-> <<>>, detail |-> "Book not found"]

\* The framework's 422 body for a payload the model Book rejects.
Unprocessable == [kind |-> "validation", rows |-> <<>>, detail |-> ""]

\* The framework's 500 body for an exception no handler catches.
ServerError == [kind |-> "error", rows |-> <<>>, detail |-> ""]

Result(t, status, resp) == [table |-> t, status |-> status, resp |-> resp]

----------------------------------------------------------------------------
(* Request handlers, each as the table and response it produces.           *)

GetBook(t, id) ==
    LET found == Find(t, id)
    IN IF found = {} THEN Result(t, 404, NotFound)
       ELSE Result(t, 200, RespBook(First(found)))

GetBooks(t) == Result(t, 200, RespList(SortedRows(t)))

CreateBook(t, p, fail) ==
    IF ~Valid(p) THEN Result(t, 422, Unprocessable)
    ELSE LET book == Book(p)
             db_book == Row(NextId(t), book.title, book.author, book.description)
             stored == Commit(t, t \cup {db_book}, fail)
         IN IF fail THEN Result(stored, 500, ServerError)
            ELSE Result(stored, 200, RespBook(db_book))

DeleteBook(t, id, fail) ==
    LET found == Find(t, id)
    IN IF found = {} THEN Result(t, 404, NotFound)
       ELSE LET stored == Commit(t, Remove(t, First(found)), fail)
            IN IF fail THEN Result(stored, 500, ServerError)
               ELSE Result(stored, 200, RespNull)

UpdateBook(t, id, p, fail) ==
    IF ~Valid(p) THEN Result(t, 422, Unprocessable)
    ELSE LET found == Find(t, id)
         IN IF found = {} THEN Result(t, 404, NotFound)
            ELSE LET book_upd == First(found)
                     upd == Setattrs(book_upd, ModelDump(Book(p)))
                     broken == fail \/ PkConflict(t, book_upd, upd)
                     stored == Commit(t, (t \ {book_upd}) \cup {upd}, broken)
                 IN IF broken THEN Result(stored, 500, ServerError)
                    ELSE Result(stored, 200, RespNull)

----------------------------------------------------------------------------------------------------------------------------------------
(* The service handling one request at a time.                             *)

Request(op, id, body, res) ==
    [op |-> op, id |-> id, body |-> body, status |-> res.status,
     resp |-> res.resp,
     afterDel |-> last.op = "DELETE" /\ last.status = 200 /\ last.id = id]

NoRequest ==
    [op |-> "none", id |-> 0, body |-> NoBody, status |-> 0,
     resp |-> RespNull, afterDel |-> FALSE]

Sessions == {1, 2}

Idle == [pc |-> "idle", op |-> "none", id |-> 0, body |-> NoBody,
         obj |-> <<>>, upd |-> <<>>, status |-> 0]

Init ==
    /\ table = {}
    /\ last = NoRequest
    /\ assigned = {}
    /\ fresh = {}
    /\ sess = [s \in Sessions |-> Idle]
    /\ table0 = {}

Get(id) ==
    /\ last' = Request("GET", id, NoBody, GetBook(table, id))
    /\ UNCHANGED <<table, sess, table0>>

List ==
    /\ last' = Request("LIST", 0, NoBody, GetBooks(table))
    /\ UNCHANGED <<table, sess, table0>>

Post(p, fail) ==
    /\ NextId(table) <= MaxId
    /\ fail => Valid(p)
    /\ LET res == CreateBook(table, p, fail)
       IN /\ table' = res.table
          /\ last' = Request("POST", 0, p, res)
    /\ UNCHANGED <<sess, table0>>

Delete(id, fail) ==
    /\ fail => Find(table, id) # {}
    /\ LET res == DeleteBook(table, id, fail)
       IN /\ table' = res.table
          /\ last' = Request("DELETE", id, NoBody, res)
    /\ UNCHANGED <<sess, table0>>

Put(id, p, fail) ==
    /\ fail => Valid(p) /\ Find(table, id) # {}
    /\ LET res == UpdateBook(table, id, p, fail)
       IN /\ table' = res.table
          /\ last' = Request("PUT", id, p, res)
    /\ UNCHANGED <<sess, table0>>

NoHistory == UNCHANGED <<assigned, fresh>>

Next ==
    \/ \E id \in Ids : Get(id) /\ NoHistory
    \/ List /\ NoHistory
    \/ \E p \in PostPayloads, fail \in BOOLEAN : Post(p, fail) /\ NoHistory
    \/ \E id \in Ids, fail \in BOOLEAN : Delete(id, fail) /\ NoHistory
    \/ \E id \in Ids, p \in PutPayloads, fail \in BOOLEAN :
          Put(id, p, fail) /\ NoHistory

Spec == Init /\ [][Next]_vars

\* The same service with the history of the ids and rows that creates
\* returned: a create adds its row, a successful update or delete of an id
\* ends the freshness of the row created under that id.
Track ==
    /\ assigned' = IF last'.op = "POST" /\ last'.status = 200
                   THEN assigned \cup {last'.resp.rows[1].id}
                   ELSE assigned
    /\ fresh' = IF last'.op = "POST" /\ last'.status = 200
                THEN fresh \cup {last'.resp.rows[1]}
                ELSE IF last'.op \in {"PUT", "DELETE"} /\ last'.status = 200
                THEN {r \in fresh : r.id # last'.id}
                ELSE fresh

NextHist ==
    \/ \E id \in Ids : Get(id) /\ Track
    \/ List /\ Track
    \/ \E p \in PostPayloads, fail \in BOOLEAN : Post(p, fail) /\ Track
    \/ \E id \in Ids, fail \in BOOLEAN : Delete(id, fail) /\ Track
    \/ \E id \in Ids, p \in PutPayloads, fail \in BOOLEAN :
          Put(id, p, fail) /\ Track

SpecHist == Init /\ [][NextHist]_vars

----------------------------------------------------------------------------
(* Two requests in flight, each in its own session (get_db).  A handler's  *)
(* query, its commit and its refresh are separate statements against the   *)
(* table; the other session's statements may run between them.             *)

\* Tables the service can hold when the two requests arrive.
ConcTables ==
    {{Row(1, S("A"), S("B"), None)},
     {Row(1, S("A"), S("B"), None), Row(2, S(""), S("B"), S("D"))}}

\* The first request is an update; the second a delete or another update.
ConcUpdates ==
    {[op |-> "PUT", id |-> id, body |-> p] :
        id \in Ids, p \in {q \in PutPayloads : Valid(q)}}

ConcRequests ==
    {[op |-> "DELETE", id |-> id, body |-> NoBody] : id \in Ids}
    \cup ConcUpdates

Received(r) ==
    [pc |-> "received", op |-> r.op, id |-> r.id, body |-> r.body,
     obj |-> <<>>, upd |-> <<>>, status |-> 0]

InitConc ==
    /\ table \in ConcTables
    /\ table0 = table
    /\ last = NoRequest
    /\ assigned = {}
    /\ fresh = {}
    /\ \E r1 \in ConcUpdates, r2 \in ConcRequests :
          sess = (1 :> Received(r1)) @@ (2 :> Received(r2))

Done(s, status) == [sess EXCEPT ![s].pc = "done", ![s].status = status]

\* The handler's query .first(): the session loads the row, or the handler
\* raises 404.  An update then runs its setattr loop on the loaded object.
Query(s) ==
    /\ sess[s].pc = "received"
    /\ LET found == Find(table, sess[s].id)
       IN sess' = IF found = {} THEN Done(s, 404)
                  ELSE [sess EXCEPT
                          ![s].pc = "commit",
                          ![s].obj = <<First(found)>>,
                          ![s].upd = IF sess[s].op = "PUT"
                                     THEN <<Setattrs(First(found),
                                              ModelDump(Book(sess[s].body)))>>
                                     ELSE <<>>]
    /\ UNCHANGED <<table, last, assigned, fresh, table0>>

\* The columns of the loaded object that the setattr loop changed.
Dirty(obj, upd) == {k \in Keys : upd[k] # obj[k]}

\* db.commit() of a delete: DELETE ... WHERE id = the loaded row's id.
CommitDelete(s) ==
    /\ sess[s].pc = "commit" /\ sess[s].op = "DELETE"
    /\ table' = table \ Find(table, sess[s].obj[1].id)
    /\ sess' = Done(s, 200)
    /\ UNCHANGED <<last, assigned, fresh, table0>>

\* db.commit() of an update: UPDATE of the changed columns WHERE id = the
\* loaded row's id, when a column changed.  The statement fails when it
\* matches no row (the row is gone) or breaks the primary key.
CommitUpdate(s) ==
    /\ sess[s].pc = "commit" /\ sess[s].op = "PUT"
    /\ LET obj == sess[s].obj[1]
           upd == sess[s].upd[1]
           cur == Find(table, obj.id)
           new == [k \in Keys |-> IF k \in Dirty(obj, upd)
                                  THEN upd[k] ELSE First(cur)[k]]
       IN IF Dirty(obj, upd) = {}
          THEN /\ sess' = [sess EXCEPT ![s].pc = "refresh"]
               /\ table' = table
          ELSE IF cur = {} \/ PkConflict(table, First(cur), new)
          THEN /\ sess' = Done(s, 500)
               /\ table' = table
          ELSE /\ sess' = [sess EXCEPT ![s].pc = "refresh"]
               /\ table' = (table \ cur) \cup {new}
    /\ UNCHANGED <<last, assigned, fresh, table0>>

\* db.refresh(book_upd): reloads the row by its id, and raises when the row
\* is gone; otherwise the handler ends and the response is 200.
Refresh(s) ==
    /\ sess[s].pc = "refresh"
    /\ sess' = IF Find(table, sess[s].upd[1].id) = {} THEN Done(s, 500)
               ELSE Done(s, 200)
    /\ UNCHANGED <<table, last, assigned, fresh, table0>>

NextConc ==
    \/ \E s \in Sessions : Query(s)
    \/ \E s \in Sessions : CommitDelete(s)
    \/ \E s \in Sessions : CommitUpdate(s)
    \/ \E s \in Sessions : Refresh(s)

SpecConc == InitConc /\ [][NextConc]_vars

\* The request of session s handled alone on table t.
Handle(t, s) ==
    IF sess[s].op = "PUT" THEN UpdateBook(t, sess[s].id, sess[s].body, FALSE)
    ELSE DeleteBook(t, sess[s].id, FALSE)

\* Table and statuses when session a's request runs first, then b's.
Serial(a, b) ==
    LET ra == Handle(table0, a)
        rb == Handle(ra.table, b)
    IN [table |-> rb.table, status |-> (a :> ra.status) @@ (b :> rb.status)]

----------------------------------------------------------------------------
(* Properties.                                                             *)

IdsOf(t) == {r.id : r \in t}

UniqueIds(t) == \A r1, r2 \in t : r1.id = r2.id => r1 = r2

\* The body supplies key k as a non-empty string.
Supplies(body, k) ==
    k \in DOMAIN body /\ body[k].t = "str" /\ body[k].s # ""

\* C1: for every existing id, a PUT whose body carries only a description
\* is accepted, and after it the stored description is the supplied one
\* while title and author are what they were.
C1_DescriptionOnlyPut ==
    [][(/\ last'.op = "PUT"
        /\ DOMAIN last'.body = {"description"}
        /\ Find(table, last'.id) # {})
       => /\ last'.status = 200
          /\ \E r \in Find(table', last'.id) :
                /\ r.description = last'.body.description
                /\ r.title = First(Find(table, last'.id)).title
                /\ r.author = First(Find(table, last'.id)).author]_vars

\* C2: a successful PUT leaves the updated record under the path id and
\* changes the id of no persisted book, whatever id the body carries.
C2_IdImmutable ==
    [][(last'.op = "PUT" /\ last'.status = 200)
       => /\ Find(table', last'.id) # {}
          /\ IdsOf(table') = IdsOf(table)]_vars

\* C3: a PUT on an existing id responds 200 with the updated Book, as
\* stored after the update, as its body.
C3_PutReturnsBook ==
    (last.op = "PUT" /\ last.status = 200)
    => /\ last.resp.kind = "book"
       /\ \E r \in table : last.resp.rows = <<r>>

\* C4: every persisted book has a non-empty title and a non-empty author.
C4_NonEmptyTitleAuthor ==
    \A r \in table : r.title # S("") /\ r.author # S("")

\* C5: on a successful PUT each of title, author and description supplied
\* as a non-empty string is overwritten with the supplied value, and each
\* one that is absent, null or the empty string keeps its stored value.
C5_UpdateFields ==
    [][(last'.op = "PUT" /\ last'.status = 200)
       => LET old == First(Find(table, last'.id))
              body == last'.body
          IN \E new \in table' :
                /\ table' = (table \ {old}) \cup {new}
                /\ \A k \in {"title", "author", "description"} :
                      new[k] = IF Supplies(body, k) THEN body[k] ELSE old[k]]_vars

\* C5 witness: a PUT with an empty title and a new description succeeded;
\* the row keeps its title and has the supplied description.
C5_Witness ==
    /\ last.op = "PUT" /\ last.status = 200
    /\ last.body = [title |-> S(""), author |-> S("B"), description |-> S("D")]
    /\ \E r \in table : r.title = S("A") /\ r.description = S("D")

\* C6: a valid POST that storage commits answers 200, adds exactly one row
\* and returns it: its id is assigned by storage and differs from every
\* other persisted id, title and author are the supplied ones, description
\* is null when none is supplied, the other rows are unchanged; so the ids
\* of the persisted books are pairwise distinct in every state.
C6_CreateAddsOneRow ==
    [][/\ (last'.op = "POST" /\ Valid(last'.body) /\ last'.status # 500)
          => /\ last'.status = 200
             /\ last'.resp.kind = "book"
             /\ LET r == last'.resp.rows[1]
                    body == last'.body
                IN /\ r.id \in Nat \ {0}
                   /\ r.id \notin IdsOf(table)
                   /\ r.title = body.title
                   /\ r.author = body.author
                   /\ r.description = IF "description" \in DOMAIN body
                                      THEN body.description ELSE None
                   /\ r \notin table
                   /\ table' = table \cup {r}
       /\ UniqueIds(table')]_vars

\* C6 witness: a POST whose body carries the id of an existing book was
\* answered with a book under another id, next to the existing one.
C6_Witness ==
    /\ last.op = "POST" /\ last.status = 200
    /\ "id" \in DOMAIN last.body /\ last.body.id = I(1)
    /\ last.resp.rows[1].id = 2
    /\ Cardinality(table) = 2

\* C7: GET of an id that a create returned, and that was not updated or
\* deleted since, returns exactly the created record; GET of an id that no
\* create ever assigned returns 404 "Book not found"; neither changes the
\* table.
C7_GetCreated ==
    [][last'.op = "GET"
       => /\ table' = table
          /\ \A r \in fresh : r.id = last'.id
                => last'.status = 200 /\ last'.resp = RespBook(r)
          /\ last'.id \notin assigned
                => last'.status = 404 /\ last'.resp = NotFound]_vars

\* C8: a successful DELETE removes exactly the record with that id; a GET
\* or a second DELETE of the same id right after it returns 404.
C8_DeleteRemoves ==
    [][/\ (last'.op = "DELETE" /\ last'.status = 200)
          => /\ Find(table, last'.id) # {}
             /\ table' = table \ Find(table, last'.id)
             /\ Find(table', last'.id) = {}
       /\ (last'.afterDel /\ last'.op \in {"GET", "DELETE"})
          => last'.status = 404 /\ last'.resp = NotFound]_vars

\* C8 witness: the second DELETE of an id was answered 404 while another
\* record is still stored.
C8_Witness ==
    /\ last.op = "DELETE" /\ last.afterDel /\ last.status = 404
    /\ table # {}

\* C9 as stated: a PUT or DELETE on an id with no row always returns 404,
\* and every request that ends in an error leaves the table unchanged.
C9_MissingIdAlways404 ==
    [][/\ (last'.op \in {"PUT", "DELETE"} /\ Find(table, last'.id) = {})
          => last'.status = 404
       /\ last'.status \in {404, 422, 500} => table' = table]_vars

\* C9 amended: a DELETE, or a PUT whose body is a valid payload, on an id
\* with no row returns 404 "Book not found"; every request that ends in an
\* error (404, 422, a failed commit) leaves the table unchanged.
C9_ErrorsChangeNothing ==
    [][/\ (/\ last'.op \in {"PUT", "DELETE"}
           /\ last'.op = "PUT" => Valid(last'.body)
           /\ Find(table, last'.id) = {})
          => last'.status = 404 /\ last'.resp = NotFound
       /\ last'.status \in {404, 422, 500} => table' = table]_vars

\* C9 witness: a valid PUT named an id with no row, next to stored rows,
\* and was answered 404.
C9_Witness ==
    /\ last.op = "PUT" /\ Valid(last.body) /\ last.status = 404
    /\ table # {}

\* C10: when both concurrent requests on one id have ended, the table and
\* the two responses are those of one of the two serial orders.
C10_Serializable ==
    (/\ \A s \in Sessions : sess[s].pc = "done"
     /\ sess[1].id = sess[2].id)
    => \E a, b \in Sessions :
          /\ a # b
          /\ table = Serial(a, b).table
          /\ \A s \in Sessions : sess[s].status = Serial(a, b).status[s]

====
